---- MODULE Spec2Model ----
(***************************************************************************)
(* Model of the dependency-parsing pipeline of syntax/network.py           *)
(* (StrangeSyntacticParser.predict / predict_heads / predict_deps, train,  *)
(* evaluate_heads).                                                        *)
(*                                                                         *)
(* Conventions.  A Python list or array is a TLA+ sequence; the Python     *)
(* index i is the TLA+ index i+1 (see At).  A head index stored in a       *)
(* result is the Python index (0 = virtual root).  Probabilities are exact *)
(* rationals: a row of the head model's softmax output is a sequence of    *)
(* positive integer numerators over one common denominator, and a matrix   *)
(* produced by a division is a record [num, den] of integer numerators     *)
(* over the denominator den.  Floating-point rounding is not modelled.     *)
(***************************************************************************)
EXTENDS Integers, Sequences, FiniteSets, TLC

\* ------------------------------------------------------------------ bounds
\* most words (without the boundary markers) in the sentences of one call
MaxWords == 3
\* most sentences handed to one predict call
MaxSents == 2
\* most sentences the generator puts into one batch
BatchSize == 2

\* ----------------------------------------------------------- list helpers
At(list, i) == list[i + 1]

Range(f) == {f[x] : x \in DOMAIN f}

\* f itself; written this way so that the model checker tabulates f once
\* instead of re-evaluating its defining expression at every application
Tab(f) == f @@ <<>>

RECURSIVE SumSeq(_)
SumSeq(s) == IF s = <<>> THEN 0 ELSE Head(s) + SumSeq(Tail(s))

RECURSIVE ProdSeq(_)
ProdSeq(s) == IF s = <<>> THEN 1 ELSE Head(s) * ProdSeq(Tail(s))

MaxOf(S) == CHOOSE x \in S : \A y \in S : y <= x
MinOf(S) == CHOOSE x \in S : \A y \in S : x <= y

\* np.argmax over one row: the Python index of the first maximum
ArgMax(row) ==
    (CHOOSE j \in 1..Len(row) :
        /\ \A k \in 1..Len(row) : row[k] <= row[j]
        /\ \A k \in 1..(j - 1) : row[k] < row[j]) - 1

\* ------------------------------------------------- pad_data (syntax.common)
\* A sentence is modelled by its number of words; pad_data wraps it with a
\* begin and an end marker.
PaddedLen(n) == n + 2

\* ------------------------------------------------ predict_heads, per item
\* batch_probs[i][:L - 1, :L - 1]
Crop(mat, L) == [r \in 1..(L - 1) |-> SubSeq(mat[r], 1, L - 1)]

\* np.sum(curr_probs, axis=-1): one sum per row
RowSums(mat) == [r \in 1..Len(mat) |-> SumSeq(mat[r])]

\* curr_probs /= np.sum(curr_probs, axis=-1): the vector of row sums is
\* broadcast along the last axis, so entry [i][j] is divided by the sum of
\* row j.  The quotients are kept over the common denominator ProdSeq(s).
DivideBySums(mat) ==
    LET s == RowSums(mat)
        P == ProdSeq(s)
    IN  [num |-> [i \in 1..Len(mat) |->
                    [j \in 1..Len(mat) |-> mat[i][j] * (P \div s[j])]],
         den |-> P]

\* heads[index] = np.argmax(curr_probs[1:], axis=-1)
GreedyHeads(num) == [d \in 1..(Len(num) - 1) |-> ArgMax(num[d + 1])]

\* ------------------------------------------ Tree Decoder (chu_liu_edmonds)
\* dependency_decoding.chu_liu_edmonds is not among the source files; it is
\* modelled from section 4.3 of the specification: greedy selection of the
\* best incoming edge per non-root node, contraction of a cycle with the
\* adjusted-weight rule, recursion, expansion.  Nodes are Python indices,
\* node 0 is the virtual root, sc[<<d, h>>] is the score of d taking head h.
\* Ties go to the smaller index, as in an arg-max.

\* BestHead selecting the lowest-scoring head instead of the highest
BestHeadLowest(d, nodes, sc) ==
    CHOOSE h \in nodes \ {d} :
        \A g \in nodes \ {d} :
            \/ sc[<<d, h>>] < sc[<<d, g>>]
            \/ (sc[<<d, g>>] = sc[<<d, h>>] /\ h <= g)

\* step 1: the highest-scoring head of d among the other nodes
BestHead(d, nodes, sc) ==
    CHOOSE h \in nodes \ {d} :
        \A g \in nodes \ {d} :
            \/ sc[<<d, g>>] < sc[<<d, h>>]
            \/ (sc[<<d, g>>] = sc[<<d, h>>] /\ h <= g)

\* the k-th ancestor of x under the head function g (the root stays put)
RECURSIVE Ancestor(_, _, _)
Ancestor(g, x, k) ==
    IF k = 0 \/ x = 0 THEN x ELSE Ancestor(g, g[x], k - 1)

\* step 2: the nodes that lie on a cycle of the candidate selection g
CycleNodes(g, nodes) ==
    {d \in nodes \ {0} :
        \E k \in 1..Cardinality(nodes) : Ancestor(g, d, k) = d}

\* The element of a one-element set.  {F(x) : x \in {e}} evaluates e once
\* and hands its value to F.
Only(S) == CHOOSE x \in S : TRUE

\* the cycle node through which an edge from h enters the cycle C: subtract
\* the cycle edge it replaces, add the external edge
Gain(sc, g, d, h) == sc[<<d, h>>] - sc[<<d, g[d]>>]
Enter(sc, g, C, h) ==
    CHOOSE d \in C : \A e \in C :
        \/ Gain(sc, g, e, h) < Gain(sc, g, d, h)
        \/ (Gain(sc, g, e, h) = Gain(sc, g, d, h) /\ d <= e)

\* the node of the cycle C an outside node d attaches to
Leave(sc, C, d) ==
    CHOOSE h \in C : \A e \in C :
        \/ sc[<<d, e>>] < sc[<<d, h>>]
        \/ (sc[<<d, e>>] = sc[<<d, h>>] /\ h <= e)

\* ContractedNodes keeping the cycle's nodes beside the new node
ContractedNodesKeepCycle(nodes, C, c) == nodes \cup {c}

\* the nodes of the graph in which the cycle C is the single node c
ContractedNodes(nodes, C, c) == (nodes \ C) \cup {c}

\* the cycle of the selection g through its smallest cycle node
CycleOf(g, nodes) ==
    {Ancestor(g, MinOf(CycleNodes(g, nodes)), k) : k \in 1..Cardinality(nodes)}

\* the scores of the graph in which the cycle C is the single node c
ContractedScores(nodes, sc, g, C, c) ==
    Tab([p \in ((nodes \ C) \cup {c}) \X ((nodes \ C) \cup {c}) |->
           IF p[1] = c /\ p[2] = c THEN 0
           ELSE IF p[1] = c THEN Gain(sc, g, Enter(sc, g, C, p[2]), p[2])
           ELSE IF p[2] = c THEN sc[<<p[1], Leave(sc, C, p[1])>>]
           ELSE sc[p]])

\* expanding the contraction: r is the arborescence of the contracted graph;
\* exactly one cycle edge is replaced by the edge entering from outside
Expand(nodes, sc, g, C, c, r) ==
    Tab([d \in nodes \ {0} |->
           IF d \in C
           THEN IF d = Enter(sc, g, C, r[c]) THEN r[c] ELSE g[d]
           ELSE IF r[d] = c THEN Leave(sc, C, d) ELSE r[d]])

\* step 3: contract one cycle, recurse, expand
RECURSIVE Arborescence(_, _)
BreakCycle(nodes, sc, g, C, c) ==
    Only({Expand(nodes, sc, g, C, c, r) :
            r \in {Only({Arborescence(ContractedNodes(nodes, C, c), sc2) :
                           sc2 \in {ContractedScores(nodes, sc, g, C, c)}})}})

\* steps 1 and 2 on the candidate selection g
Selected(nodes, sc, g) ==
    IF CycleNodes(g, nodes) = {} THEN g
    ELSE Only({BreakCycle(nodes, sc, g, C, MaxOf(nodes) + 1) :
                 C \in {{Ancestor(g, MinOf(CycleNodes(g, nodes)), k) :
                            k \in 1..Cardinality(nodes)}}})

Arborescence(nodes, sc) ==
    Only({Selected(nodes, sc, g) :
            g \in {Tab([d \in nodes \ {0} |-> BestHead(d, nodes, sc)])}})

IsSquare(mat) == \A r \in 1..Len(mat) : Len(mat[r]) = Len(mat)

\* chu_liu_edmonds(matrix): fails on a matrix that is not square or smaller
\* than 2x2; otherwise returns (heads, score), heads[0] = -1 for the root.
\* The outcome is a record: the error raised ("" for none) and the value.
chu_liu_edmonds(mat) ==
    IF ~IsSquare(mat) \/ Len(mat) < 2 THEN [raised |-> "ShapeMismatch", value |-> <<>>]
    ELSE
      Only({[raised |-> "",
             value |-> <<[i \in 1..Len(mat) |-> IF i = 1 THEN -1 ELSE g[i - 1]],
                         SumSeq([d \in 1..(Len(mat) - 1) |->
                                   mat[d + 1][g[d] + 1]])>>] :
              g \in {Only({Arborescence(0..(Len(mat) - 1), sc) :
                             sc \in {Tab([p \in (0..(Len(mat) - 1)) \X (0..(Len(mat) - 1)) |->
                                            mat[p[1] + 1][p[2] + 1]])}})}})

\* ---------------------------------------------------------------- state
VARIABLES
    pc,                 \* where the parser's current call stands
    data,               \* predict: the padded sentences (their lengths)
    todo,               \* predict_heads: indexes test_gen has yet to yield
    probs,              \* predict_heads: probs, one entry per sentence
    heads,              \* predict_heads: heads, one entry per sentence
    scored,             \* history: head_model's raw output per sentence
    chl_pred_heads,     \* predict_heads: the decoded head lists
    dtodo,              \* predict_deps: indexes test_gen has yet to yield
    answer,             \* predict_deps: answer, one entry per sentence
    labelled,           \* history: dep_model's arg-max labels per sentence
    result,             \* what the call returned, or the error it raised
    symbol_vocabulary,  \* self.symbol_vocabulary
    tag_vocabulary,     \* self.tag_vocabulary
    dep_vocab,          \* self.dep_vocab
    trained_on,         \* history: the arguments of the last train call
    config,             \* the constructor's use_tags and use_char_model
    corr_heads,         \* evaluate_heads: first argument
    pred_heads,         \* evaluate_heads: second argument
    evaluated,          \* evaluate_heads: its outcome
    matrix,             \* chu_liu_edmonds: the score matrix being decoded
    stack,              \* chu_liu_edmonds: the graphs, innermost last
    tree,               \* chu_liu_edmonds: the arborescence being expanded
    contractions,       \* history: cycles contracted so far in this call
    first_tag,          \* is_subsumed: first argument
    second_tag,         \* is_subsumed: second argument
    tag_feats,          \* history: the descriptions the two tags were written from
    max_length,         \* PositionEmbedding: self.max_length
    inputs              \* PositionEmbedding.call: the shape of its argument

vars == <<pc, data, todo, probs, heads, scored, chl_pred_heads, dtodo, answer,
          labelled, result, symbol_vocabulary, tag_vocabulary, dep_vocab,
          trained_on, config, corr_heads, pred_heads, evaluated,
          matrix, stack, tree, contractions, first_tag, second_tag, tag_feats,
          max_length, inputs>>

predictVars == <<data, todo, probs, heads, scored, chl_pred_heads, dtodo,
                 answer, labelled>>
vocabularies == <<symbol_vocabulary, tag_vocabulary, dep_vocab>>
vocabVars == <<symbol_vocabulary, tag_vocabulary, dep_vocab, trained_on, config>>
evalVars == <<corr_heads, pred_heads, evaluated>>
decodeVars == <<matrix, stack, tree, contractions>>
tagVars == <<first_tag, second_tag, tag_feats>>
posVars == <<max_length, inputs>>
otherVars == <<decodeVars, tagVars, posVars>>

\* the parts of the state a specification does not exercise
NoParser ==
    /\ data = <<>> /\ todo = {} /\ probs = <<>> /\ heads = <<>>
    /\ scored = <<>> /\ chl_pred_heads = <<>> /\ dtodo = {} /\ answer = <<>>
    /\ labelled = <<>>
    /\ symbol_vocabulary = <<>> /\ tag_vocabulary = <<>> /\ dep_vocab = <<>>
    /\ trained_on = <<>>
    /\ config = [use_tags |-> FALSE, use_char_model |-> FALSE]
    /\ corr_heads = <<>> /\ pred_heads = <<>> /\ evaluated = <<>>
NoDecoding == matrix = <<>> /\ stack = <<>> /\ tree = <<>> /\ contractions = 0
NoTags == first_tag = <<>> /\ second_tag = <<>> /\ tag_feats = <<>>
NoPositions == max_length = 0 /\ inputs = <<>>

\* Python's None is the empty sequence, a value x that is set is <<x>>.
None == <<>>
Some(x) == <<x>>
NoneList(k) == [j \in 1..k |-> None]

\* a call's outcome: the error raised ("" when it returned) and the value
Returned(v) == [raised |-> "", value |-> v]
Raised(e) == [raised |-> e, value |-> None]

\* --------------------------------------------- the models' outputs (inputs)
\* One row of head_model's softmax output over the padded width W: positive
\* numerators over the denominator W + 1, one position holding double mass.
SoftmaxRows(W) ==
    {[c \in 1..W |-> IF c = f THEN 2 ELSE 1] : f \in 1..W}

\* the rows of padding positions, which the crop never reads
PadRow(W) == [c \in 1..W |-> IF c = 1 THEN 2 ELSE 1]

\* the batches test_gen may yield next: up to BatchSize of the remaining
\* indexes, in any order
BatchesOf(rem) ==
    {b \in UNION {[1..n -> rem] : n \in 1..BatchSize} :
        \A i, j \in DOMAIN b : i # j => b[i] # b[j]}

BatchWidth(d, indexes) == MaxOf({At(d, indexes[i]) : i \in DOMAIN indexes})

\* the row whose double mass lies at column f
FavRow(W, f) == [c \in 1..W |-> IF c = f THEN 2 ELSE 1]

\* head_model.predict(batch): one W x W matrix per item of the batch, every
\* row a softmax row.  For a call with a single sentence every row the crop
\* reads ranges over all softmax rows; for a call with several sentences the
\* matrix of an item is one of the W matrices whose row r favours column
\* r + o (cyclically), o in 0..W-1.
HeadModelOutputs(d, indexes) ==
    LET W == BatchWidth(d, indexes)
    IN  IF Len(d) = 1
        THEN {<<[r \in 1..W |-> IF r <= d[1] - 1 THEN free[r] ELSE PadRow(W)]>> :
                 free \in [1..(d[1] - 1) -> SoftmaxRows(W)]}
        ELSE {[i \in DOMAIN indexes |->
                 [r \in 1..W |-> FavRow(W, ((r - 1 + o[i]) % W) + 1)]] :
                 o \in [DOMAIN indexes -> 0..(W - 1)]}

\* ------------------------------------------------------------- predict
\* predict_heads, lines 343-347: what the loop body computes for one item
HeadsItem(item_probs, L) ==
    LET curr_probs == DivideBySums(Crop(item_probs, L))
    IN  [probs |-> curr_probs, heads |-> GreedyHeads(curr_probs.num)]

\* ProbsSlot using the position inside the batch instead of the index
ProbsSlotBatchPosition(indexes, i) == i - 1

\* lines 342, 346-347: the list position the i-th item of a batch is
\* written to is its index in data
ProbsSlot(indexes, i) == indexes[i]

\* lines 340-347 for one batch: the lists after the loop over the batch
HeadsLoop(old, field, d, indexes, batch_probs) ==
    [j \in 1..Len(old) |->
        LET hit == {i \in DOMAIN indexes : ProbsSlot(indexes, i) = j - 1}
        IN  IF hit = {} THEN old[j]
            ELSE LET i == MaxOf(hit)
                     item == HeadsItem(batch_probs[i], At(d, indexes[i]))
                 IN  Some(IF field = "probs" THEN item.probs ELSE item.heads)]

\* DecodeElem that keeps the root's entry: [0] instead of [0][1:]
DecodeElemKeepRoot(elem) ==
    IF elem = None THEN Raised("AttributeError")
    ELSE LET r == chu_liu_edmonds(elem[1].num)
         IN  IF r.raised # "" THEN Raised(r.raised)
             ELSE Returned(At(r.value, 0))

\* DecodeElem that drops the last entry instead of the first: [0][:-1]
DecodeElemDropLast(elem) ==
    IF elem = None THEN Raised("AttributeError")
    ELSE LET r == chu_liu_edmonds(elem[1].num)
         IN  IF r.raised # "" THEN Raised(r.raised)
             ELSE Returned(SubSeq(At(r.value, 0), 1, Len(At(r.value, 0)) - 1))

\* DecodeElem that hands the decoder the transposed matrix (head and
\* dependent axes exchanged)
DecodeElemTransposed(elem) ==
    IF elem = None THEN Raised("AttributeError")
    ELSE LET m == elem[1].num
             r == chu_liu_edmonds([i \in 1..Len(m) |-> [j \in 1..Len(m) |-> m[j][i]]])
         IN  IF r.raised # "" THEN Raised(r.raised)
             ELSE Returned(Tail(At(r.value, 0)))

\* line 348, one element: chu_liu_edmonds(elem.astype("float64"))[0][1:]
DecodeElem(elem) ==
    IF elem = None THEN Raised("AttributeError")
    ELSE LET r == chu_liu_edmonds(elem[1].num)
         IN  IF r.raised # "" THEN Raised(r.raised)
             ELSE Returned(Tail(At(r.value, 0)))

\* DecodeAll that catches a failing element and puts an empty list for it
DecodeAllSwallow(ps) ==
    Returned([j \in 1..Len(ps) |->
                IF DecodeElem(ps[j]).raised # "" THEN <<>>
                ELSE DecodeElem(ps[j]).value])

\* line 348, the list comprehension: the first failing element's error
\* ends it, nothing catches it
DecodeAll(ps) ==
    LET rs == [j \in 1..Len(ps) |-> DecodeElem(ps[j])]
        bad == {j \in 1..Len(ps) : rs[j].raised # ""}
    IN  IF bad # {} THEN Raised(rs[MinOf(bad)].raised)
        ELSE Returned([j \in 1..Len(ps) |-> rs[j].value])

\* predict_deps, lines 360-361: np.argmax of dep_model's output, one label
\* id per position of the padded width
LabelRow(W, seed, nlabels) == [p \in 1..W |-> (seed + p) % nlabels]

\* lines 363-365: batch_labels[i][1:L - 1], looked up in dep_vocab.symbols_
DepsItem(label_row, L, symbols) ==
    LET curr_labels == SubSeq(label_row, 2, L - 1)
    IN  [k \in 1..Len(curr_labels) |-> At(symbols, curr_labels[k])]

\* line 365: the list position written is the item's index in data
AnswerSlot(indexes, i) == indexes[i]

DepsLoop(old, d, indexes, batch_labels, symbols) ==
    [j \in 1..Len(old) |->
        LET hit == {i \in DOMAIN indexes : AnswerSlot(indexes, i) = j - 1}
        IN  IF hit = {} THEN old[j]
            ELSE LET i == MaxOf(hit)
                 IN  Some(DepsItem(batch_labels[i], At(d, indexes[i]), symbols))]

\* the sentence lists one predict call may be given (words per sentence)
SentenceLists ==
    {s \in UNION {[1..k -> 0..MaxWords] : k \in 1..MaxSents} :
        SumSeq(s) <= MaxWords}

\* predict, line 331, and predict_heads, lines 337-339, called in the state
\* from with one of the sentence lists
CallPredictWith(from, lists) ==
    /\ pc = from
    /\ \E sents \in lists :
          /\ data' = [j \in 1..Len(sents) |-> PaddedLen(sents[j])]
          /\ todo' = 0..(Len(sents) - 1)
          /\ probs' = NoneList(Len(sents))
          /\ heads' = NoneList(Len(sents))
          /\ scored' = NoneList(Len(sents))
    /\ pc' = "predict_heads"
    /\ chl_pred_heads' = None /\ dtodo' = {} /\ answer' = None
    /\ labelled' = None /\ result' = None
    /\ UNCHANGED <<vocabVars, evalVars, otherVars>>

\* predict on a parser made by load_syntactic_parser
CallPredict == CallPredictWith("ready", SentenceLists)

\* predict_heads, lines 340-347: one batch of test_gen
PredictHeadsBatch ==
    /\ pc = "predict_heads" /\ todo # {}
    /\ \E indexes \in BatchesOf(todo) :
       \E batch_probs \in HeadModelOutputs(data, indexes) :
              /\ probs' = HeadsLoop(probs, "probs", data, indexes, batch_probs)
              /\ heads' = HeadsLoop(heads, "heads", data, indexes, batch_probs)
              /\ scored' = [j \in 1..Len(scored) |->
                              IF \E i \in DOMAIN indexes : indexes[i] = j - 1
                              THEN Some(batch_probs[CHOOSE i \in DOMAIN indexes :
                                                       indexes[i] = j - 1])
                              ELSE scored[j]]
              /\ todo' = todo \ Range(indexes)
    /\ UNCHANGED <<pc, data, chl_pred_heads, dtodo, answer, labelled, result,
                   vocabVars, evalVars, otherVars>>

\* predict_heads, lines 348-349, once test_gen is exhausted, and
\* predict_deps, lines 352-358
PredictHeadsDecode ==
    /\ pc = "predict_heads" /\ todo = {}
    /\ LET r == DecodeAll(probs)
       IN  IF r.raised # ""
           THEN /\ pc' = "raised" /\ result' = Some(r)
                /\ UNCHANGED <<chl_pred_heads, dtodo, answer, labelled>>
           ELSE /\ pc' = "predict_deps"
                /\ chl_pred_heads' = Some(r.value)
                /\ dtodo' = 0..(Len(data) - 1)
                /\ answer' = Some(NoneList(Len(data)))
                /\ labelled' = Some(NoneList(Len(data)))
                /\ UNCHANGED result
    /\ UNCHANGED <<data, todo, probs, heads, scored, vocabVars, evalVars, otherVars>>

\* predict_deps, lines 359-365: one batch of test_gen
PredictDepsBatch ==
    /\ pc = "predict_deps" /\ dtodo # {}
    /\ \E indexes \in BatchesOf(dtodo) :
       \E seed \in 0..(Len(dep_vocab) - 1) :
          LET W == BatchWidth(data, indexes)
              batch_labels == [i \in DOMAIN indexes |->
                                 LabelRow(W, seed + i, Len(dep_vocab))]
          IN  /\ answer' = Some(DepsLoop(answer[1], data, indexes,
                                         batch_labels, dep_vocab))
              /\ labelled' = Some([j \in 1..Len(data) |->
                              IF \E i \in DOMAIN indexes : indexes[i] = j - 1
                              THEN Some(batch_labels[CHOOSE i \in DOMAIN indexes :
                                                        indexes[i] = j - 1])
                              ELSE labelled[1][j]])
              /\ dtodo' = dtodo \ Range(indexes)
    /\ UNCHANGED <<pc, data, todo, probs, heads, scored, chl_pred_heads,
                   result, vocabVars, evalVars, otherVars>>

\* predict_deps, line 366, and predict, line 334; an entry of the label
\* list keeps its Some(...) wrapping, an unset one would be None
PredictReturn ==
    /\ pc = "predict_deps" /\ dtodo = {}
    /\ result' = Some(Returned(<<chl_pred_heads[1], answer[1]>>))
    /\ pc' = "returned"
    /\ UNCHANGED <<predictVars, vocabVars, evalVars, otherVars>>

\* load_syntactic_parser, lines 61-62: only dep_vocab is set, from the
\* configuration file
LoadedDepVocab == <<0, 1>>

Init ==
    /\ pc = "ready"
    /\ data = None /\ todo = {} /\ probs = None /\ heads = None
    /\ scored = None /\ chl_pred_heads = None /\ dtodo = {} /\ answer = None
    /\ labelled = None /\ result = None
    /\ symbol_vocabulary = None /\ tag_vocabulary = None
    /\ dep_vocab = LoadedDepVocab
    /\ trained_on = None
    /\ config = [use_tags |-> FALSE, use_char_model |-> FALSE]
    /\ corr_heads = None /\ pred_heads = None /\ evaluated = None
    /\ NoDecoding /\ NoTags /\ NoPositions

Next ==
    \/ CallPredict
    \/ PredictHeadsBatch
    \/ PredictHeadsDecode
    \/ PredictDepsBatch
    \/ PredictReturn

Spec == Init /\ [][Next]_vars

\* -------------------------------------------------------- evaluate_heads
\* most heads in the gold lists, and in the predicted lists, of one call
MaxEvalLen == 3
\* most sentences in either list of one call
MaxEvalSents == 2

\* StripMarkers dropping the first two elements instead of first and last
StripMarkersFirstTwo(corr_sent, pred_sent) ==
    IF Len(corr_sent) = Len(pred_sent) + 2
    THEN SubSeq(corr_sent, 3, Len(corr_sent))
    ELSE corr_sent

\* lines 372-373: corr_sent[1:-1] when the gold sentence is 2 longer
StripMarkers(corr_sent, pred_sent) ==
    IF Len(corr_sent) = Len(pred_sent) + 2
    THEN SubSeq(corr_sent, 2, Len(corr_sent) - 1)
    ELSE corr_sent

\* CountEqual counting up to the last but one position only
CountEqualShort(corr_sent, pred_sent) ==
    Cardinality({i \in 1..(Len(pred_sent) - 1) : corr_sent[i] = pred_sent[i]})

\* lines 377-378: the positions at which the zipped sentences agree
CountEqual(corr_sent, pred_sent) ==
    Cardinality({i \in 1..Len(pred_sent) : corr_sent[i] = pred_sent[i]})

\* lines 376-379: has_nonequal after the loop over the zipped sentences
HasNonequal(corr_sent, pred_sent) ==
    \E i \in 1..Len(pred_sent) : corr_sent[i] # pred_sent[i]

\* lines 371-381: the loop over zip(corr_heads, pred_heads) from pair k on,
\* with the counters acc = [corr, total, corr_sents]; the first pair whose
\* lengths differ after the strip raises
RECURSIVE EvalLoop(_, _, _, _)
EvalLoop(gold, pred, k, acc) ==
    IF k > Len(gold) \/ k > Len(pred) THEN Returned(acc)
    ELSE LET corr_sent == StripMarkers(gold[k], pred[k])
         IN  IF Len(corr_sent) # Len(pred[k]) THEN Raised("ValueError")
             ELSE EvalLoop(gold, pred, k + 1,
                    [corr |-> acc.corr + CountEqual(corr_sent, pred[k]),
                     total |-> acc.total + Len(corr_sent),
                     corr_sents |-> acc.corr_sents
                        + (1 - (IF HasNonequal(corr_sent, pred[k]) THEN 1 ELSE 0))])

\* lines 369-382.  A quotient a / b is the pair <<a, b>>; dividing by zero
\* raises.
evaluate_heads(gold, pred) ==
    LET r == EvalLoop(gold, pred, 1, [corr |-> 0, total |-> 0, corr_sents |-> 0])
    IN  IF r.raised # "" THEN r
        ELSE IF r.value.total = 0 \/ Len(gold) = 0 THEN Raised("ZeroDivisionError")
        ELSE Returned(<<r.value.corr, r.value.total,
                        <<r.value.corr, r.value.total>>,
                        r.value.corr_sents, Len(gold),
                        <<r.value.corr_sents, Len(gold)>>>>)

\* the sentence lists of at most MaxEvalSents sentences and at most
\* MaxEvalLen heads in all, the heads drawn from vals
HeadLists(vals) ==
    {l \in UNION {[1..k -> UNION {[1..n -> vals] : n \in 0..MaxEvalLen}] :
                    k \in 0..MaxEvalSents} :
        SumSeq([j \in 1..Len(l) |-> Len(l[j])]) <= MaxEvalLen}

\* the calls of evaluate_heads that are checked: gold heads 0 or 1 against
\* predicted heads 0, and the two calls the specification gives as examples
EvalCalls ==
    (HeadLists({0, 1}) \X HeadLists({0}))
        \cup {<< <<<<1, 2, 3>>>>, <<<<1, 2, 3>>>> >>,
              << <<<<1, 2, 3>>>>, <<<<1, 2, 0>>>> >>}

InitEval ==
    /\ pc = "evaluate"
    /\ data = None /\ todo = {} /\ probs = None /\ heads = None
    /\ scored = None /\ chl_pred_heads = None /\ dtodo = {} /\ answer = None
    /\ labelled = None /\ result = None
    /\ symbol_vocabulary = None /\ tag_vocabulary = None
    /\ dep_vocab = LoadedDepVocab
    /\ trained_on = None
    /\ config = [use_tags |-> FALSE, use_char_model |-> FALSE]
    /\ \E call \in EvalCalls :
          corr_heads = call[1] /\ pred_heads = call[2]
    /\ evaluated = None
    /\ NoDecoding /\ NoTags /\ NoPositions

EvaluateHeads ==
    /\ pc = "evaluate"
    /\ evaluated' = Some(evaluate_heads(corr_heads, pred_heads))
    /\ pc' = "evaluated"
    /\ UNCHANGED <<predictVars, result, vocabVars, corr_heads, pred_heads,
                   otherVars>>

NextEval == EvaluateHeads

SpecEval == InitEval /\ [][NextEval]_vars

\* ------------------------------------------------------------------ train
\* Symbols (characters, tags, relation labels) are the numbers 1..MaxSymbol,
\* a corpus is a sequence of sentences, a sentence a sequence of symbols.
MaxSymbol == 2
\* most sentences of a training or held-out corpus
MaxTrainSents == 3
\* min_count of the three vocabularies
MinCount == 3

\* the boundary markers (common.common BEGIN, END; 'BEGIN', 'END' of line 243)
BEGIN == MaxSymbol + 1
END == MaxSymbol + 2

\* pad_data on a corpus: every sentence wrapped with the two markers
PadCorpus(corpus) ==
    [j \in 1..Len(corpus) |-> <<BEGIN>> \o corpus[j] \o <<END>>]

\* how often sym occurs in the corpus
Occurrences(corpus, sym) ==
    SumSeq([j \in 1..Len(corpus) |->
              Cardinality({i \in 1..Len(corpus[j]) : corpus[j][i] = sym})])

RECURSIVE SortedSeq(_)
SortedSeq(S) ==
    IF S = {} THEN <<>> ELSE <<MinOf(S)>> \o SortedSeq(S \ {MinOf(S)})

\* Vocabulary(min_count=3).train(corpus), FeatureVocabulary likewise: the
\* unknown-symbol entry 0, then the symbols seen at least min_count times
TrainVocabulary(corpus) ==
    <<0>> \o SortedSeq({sym \in 1..END : Occurrences(corpus, sym) >= MinCount})

\* _transform_data, lines 234-240: what self.symbol_vocabulary is afterwards
TransformData(vocabulary, sents, to_train) ==
    IF to_train THEN Some(TrainVocabulary(sents)) ELSE vocabulary

\* _transform_tags, lines 242-247: what self.tag_vocabulary is afterwards;
\* reading a vocabulary that was never set fails
TransformTags(vocabulary, sents, to_train) ==
    LET wrapped == PadCorpus(sents)
    IN  IF to_train THEN Returned(Some(TrainVocabulary(wrapped)))
        ELSE IF vocabulary = None THEN Raised("AttributeError")
        ELSE Returned(vocabulary)

\* DevTransformData passing to_train=True for the held-out sentences
DevTransformDataTrains(vocabulary, dev_sents) ==
    TransformData(vocabulary, dev_sents, TRUE)

\* line 262: self._transform_data(dev_sents), to_train left at False
DevTransformData(vocabulary, dev_sents) ==
    TransformData(vocabulary, dev_sents, FALSE)

\* DevTransformTags passing to_train=True for the held-out tags
DevTransformTagsTrains(vocabulary, dev_tags) ==
    TransformTags(vocabulary, dev_tags, TRUE)

\* line 263: self._transform_tags(dev_tags), to_train left at False
DevTransformTags(vocabulary, dev_tags) ==
    TransformTags(vocabulary, dev_tags, FALSE)

\* train, lines 249-271: the three vocabularies when the call ends, and the
\* error that ended it ("" when it returned).  args holds sents, deps, tags,
\* dev_sents, dev_deps, dev_tags; an argument left out is None.  The
\* embedder is present; fitting the two networks changes no vocabulary.
TrainOutcome(cfg, sv, tv, dv, args) ==
    LET sv1 == IF cfg.use_char_model
               THEN TransformData(sv, PadCorpus(args.sents), TRUE) ELSE sv
        tv1 == IF args.tags # None
               THEN TransformTags(tv, args.tags[1], TRUE).value ELSE tv
        has_dev == args.dev_sents # None
        sv2 == IF has_dev /\ cfg.use_char_model
               THEN DevTransformData(sv1, PadCorpus(args.dev_sents[1])) ELSE sv1
        dev_tag_call ==
               IF has_dev /\ cfg.use_tags
               THEN IF args.dev_tags = None THEN Raised("TypeError")
                    ELSE DevTransformTags(tv1, args.dev_tags[1])
               ELSE Returned(tv1)
        dv1 == TrainVocabulary(PadCorpus(args.deps))
    IN  IF dev_tag_call.raised # ""
        THEN [raised |-> dev_tag_call.raised, symbol_vocabulary |-> sv2,
              tag_vocabulary |-> tv1, dep_vocab |-> dv]
        ELSE [raised |-> IF cfg.use_tags /\ dev_tag_call.value = None
                         THEN "AttributeError" ELSE "",
              symbol_vocabulary |-> sv2,
              tag_vocabulary |-> dev_tag_call.value,
              dep_vocab |-> dv1]

\* the corpus of n one-word sentences, all made of the symbol sym
Uniform(n, sym) == [j \in 1..n |-> <<sym>>]

\* the train calls that are checked: training sentences of symbol 1, labels
\* of one symbol, optional tags of one symbol, and an optional held-out
\* corpus of MaxTrainSents sentences with a symbol of its own
TrainCalls ==
    {[sents |-> Uniform(n, 1),
      deps |-> Uniform(n, d),
      tags |-> IF t = 0 THEN None ELSE Some(Uniform(n, t)),
      dev_sents |-> IF e = 0 THEN None ELSE Some(Uniform(MaxTrainSents, e)),
      dev_deps |-> IF e = 0 THEN None ELSE Some(Uniform(MaxTrainSents, e)),
      dev_tags |-> IF e = 0 \/ ~g THEN None ELSE Some(Uniform(MaxTrainSents, e))] :
        n \in 1..MaxTrainSents, d \in 1..MaxSymbol, t \in 0..MaxSymbol,
        e \in 0..MaxSymbol, g \in BOOLEAN}

\* __init__, lines 76-91: no vocabulary exists yet
InitTrain ==
    /\ pc = "constructed"
    /\ data = None /\ todo = {} /\ probs = None /\ heads = None
    /\ scored = None /\ chl_pred_heads = None /\ dtodo = {} /\ answer = None
    /\ labelled = None /\ result = None
    /\ symbol_vocabulary = None /\ tag_vocabulary = None
    /\ dep_vocab = None
    /\ trained_on = None
    /\ config \in [use_tags : BOOLEAN, use_char_model : BOOLEAN]
    /\ corr_heads = None /\ pred_heads = None /\ evaluated = None
    /\ NoDecoding /\ NoTags /\ NoPositions

Train ==
    /\ pc = "constructed"
    /\ \E args \in TrainCalls :
          LET out == TrainOutcome(config, symbol_vocabulary, tag_vocabulary,
                                  dep_vocab, args)
          IN  /\ symbol_vocabulary' = out.symbol_vocabulary
              /\ tag_vocabulary' = out.tag_vocabulary
              /\ dep_vocab' = out.dep_vocab
              /\ trained_on' = Some(args)
              /\ pc' = IF out.raised = "" THEN "ready" ELSE "raised"
              /\ result' = IF out.raised = "" THEN None
                           ELSE Some(Raised(out.raised))
    /\ UNCHANGED <<predictVars, config, evalVars, otherVars>>

\* predict on the trained parser, with one sentence of at most one word
CallPredictTrained ==
    CallPredictWith("ready", {<<n>> : n \in 0..1})

\* the caller is done with what predict returned
NextCall ==
    /\ pc = "returned"
    /\ pc' = "ready"
    /\ data' = None /\ todo' = {} /\ probs' = None /\ heads' = None
    /\ scored' = None /\ chl_pred_heads' = None /\ dtodo' = {}
    /\ answer' = None /\ labelled' = None /\ result' = None
    /\ UNCHANGED <<vocabVars, evalVars, otherVars>>

NextTrain ==
    \/ Train
    \/ CallPredictTrained
    \/ PredictHeadsBatch
    \/ PredictHeadsDecode
    \/ PredictDepsBatch
    \/ PredictReturn
    \/ NextCall

SpecTrain == InitTrain /\ [][NextTrain]_vars

\* ------------------------------------------- chu_liu_edmonds, step by step
\* The decoder of line 348 as the loop it runs: select, contract while the
\* selection has a cycle, then expand the contractions innermost first.

MaxNodes == 4

\* the scores an entry may take; two values give ties in every row
ScoreValues == {1, 2}

\* the entries the decoder reads: row d >= 1, column h # d
FreeEntries(n) == {p \in (1..(n - 1)) \X (0..(n - 1)) : p[1] # p[2]}

\* the square matrices of n rows; the root's row and the diagonal, which the
\* decoder never reads, hold 1
SquareMatrices(n) ==
    {Tab([r \in 1..n |-> Tab([col \in 1..n |->
            IF r = 1 \/ r = col THEN 1 ELSE f[<<r - 1, col - 1>>]])]) :
       f \in [FreeEntries(n) -> ScoreValues]}

RECURSIVE SquareMatricesUpTo(_)
SquareMatricesUpTo(n) ==
    IF n < 2 THEN {} ELSE SquareMatrices(n) \cup SquareMatricesUpTo(n - 1)

\* the matrices of 2..MaxNodes rows, one 1 x 1 and one 3 x 2 matrix
DecodeMatrices ==
    SquareMatricesUpTo(MaxNodes) \cup {<<<<1>>>>, <<<<1, 1>>, <<1, 1>>, <<1, 1>>>>}

\* a graph on the stack; g, C and c are set once its cycle is contracted
Graph(nodes, sc) == [nodes |-> nodes, sc |-> sc, g |-> <<>>, C |-> {}, c |-> 0]

TopGraph == stack[Len(stack)]
Pop(st) == SubSeq(st, 1, Len(st) - 1)

InitDecode ==
    /\ pc = "decode"
    /\ NoParser /\ NoTags /\ NoPositions
    /\ result = None
    /\ matrix \in DecodeMatrices
    /\ stack = <<>> /\ tree = None /\ contractions = 0

\* the call: the shape is checked, the matrix becomes the outermost graph
DecodeStart ==
    /\ pc = "decode"
    /\ IF IsSquare(matrix) /\ Len(matrix) >= 2
       THEN /\ stack' = <<Graph(0..(Len(matrix) - 1),
                               Tab([p \in (0..(Len(matrix) - 1)) \X (0..(Len(matrix) - 1)) |->
                                      matrix[p[1] + 1][p[2] + 1]]))>>
            /\ pc' = "decode_select"
            /\ UNCHANGED result
       ELSE /\ result' = Some(Raised("ShapeMismatch"))
            /\ pc' = "raised"
            /\ UNCHANGED stack
    /\ UNCHANGED <<matrix, tree, contractions, predictVars, vocabVars,
                   evalVars, tagVars, posVars>>

\* steps 1 to 3: select the best heads of the innermost graph; without a
\* cycle they are its arborescence, with one the cycle is contracted
DecodeSelect ==
    /\ pc = "decode_select"
    /\ \E g \in {Tab([d \in TopGraph.nodes \ {0} |->
                        BestHead(d, TopGraph.nodes, TopGraph.sc)])} :
          IF CycleNodes(g, TopGraph.nodes) = {}
          THEN /\ tree' = Some(g)
               /\ stack' = Pop(stack)
               /\ pc' = "decode_expand"
               /\ UNCHANGED contractions
          ELSE \E C \in {CycleOf(g, TopGraph.nodes)} :
               \E c \in {MaxOf(TopGraph.nodes) + 1} :
                  /\ stack' = Append(
                        [stack EXCEPT ![Len(stack)] =
                            [nodes |-> TopGraph.nodes, sc |-> TopGraph.sc,
                             g |-> g, C |-> C, c |-> c]],
                        Graph(ContractedNodes(TopGraph.nodes, C, c),
                              ContractedScores(TopGraph.nodes, TopGraph.sc,
                                               g, C, c)))
                  /\ contractions' = contractions + 1
                  /\ pc' = "decode_select"
                  /\ UNCHANGED tree
    /\ UNCHANGED <<matrix, result, predictVars, vocabVars, evalVars, tagVars,
                   posVars>>

\* the innermost contraction is expanded with the arborescence found inside
DecodeExpand ==
    /\ pc = "decode_expand" /\ stack # <<>>
    /\ tree' = Some(Expand(TopGraph.nodes, TopGraph.sc, TopGraph.g,
                           TopGraph.C, TopGraph.c, tree[1]))
    /\ stack' = Pop(stack)
    /\ UNCHANGED <<pc, matrix, contractions, result, predictVars, vocabVars,
                   evalVars, tagVars, posVars>>

\* the result: the heads, -1 for the root, and the score of the tree
DecodeReturn ==
    /\ pc = "decode_expand" /\ stack = <<>>
    /\ result' = Some(Returned(
          <<[i \in 1..Len(matrix) |-> IF i = 1 THEN -1 ELSE tree[1][i - 1]],
            SumSeq([d \in 1..(Len(matrix) - 1) |->
                      matrix[d + 1][tree[1][d] + 1]])>>))
    /\ pc' = "decoded"
    /\ UNCHANGED <<matrix, stack, tree, contractions, predictVars, vocabVars,
                   evalVars, tagVars, posVars>>

NextDecode ==
    \/ DecodeStart
    \/ DecodeSelect
    \/ DecodeExpand
    \/ DecodeReturn

\* a started call keeps running: nothing else is scheduled on its thread
SpecDecode == InitDecode /\ [][NextDecode]_vars /\ WF_vars(NextDecode)

\* ------------------------------------- read_tags.py: is_subsumed
\* A string is the sequence of its tokens: a separator character (",", "|",
\* "=") is a token of its own, a maximal run of other characters is one
\* token.  The string literal "Abbr" is <<"Abbr">>, the empty string <<>>.

MaxFeats == 2

\* the index of the first sep in s, 0 if there is none
IndexOf(s, sep) ==
    IF \E i \in 1..Len(s) : s[i] = sep
    THEN CHOOSE i \in 1..Len(s) : s[i] = sep /\ \A j \in 1..(i - 1) : s[j] # sep
    ELSE 0

\* s.split(sep, maxsplit=1)
SplitOnce(s, sep) ==
    IF IndexOf(s, sep) = 0 THEN <<s>>
    ELSE <<SubSeq(s, 1, IndexOf(s, sep) - 1),
           SubSeq(s, IndexOf(s, sep) + 1, Len(s))>>

\* s.split(sep)
RECURSIVE Split(_, _)
Split(s, sep) ==
    IF IndexOf(s, sep) = 0 THEN <<s>>
    ELSE <<SubSeq(s, 1, IndexOf(s, sep) - 1)>>
            \o Split(SubSeq(s, IndexOf(s, sep) + 1, Len(s)), sep)

\* lines 8-10 for one elem of feats.split("|"): a (key, value) pair per value
ElemFields(elem) ==
    Only({[v \in 1..Len(values) |-> <<SplitOnce(elem, "=")[1], values[v]>>] :
            values \in {Split(SplitOnce(elem, "=")[2], ",")}})

\* lines 7-10: fields.extend over all elems
RECURSIVE ExtendFields(_)
ExtendFields(elems) ==
    IF elems = <<>> THEN <<>>
    ELSE ElemFields(Head(elems)) \o ExtendFields(Tail(elems))

\* dict.get(key): None, or the value the key holds
Get(d, key) ==
    IF \E i \in 1..Len(d) : d[i][1] = key
    THEN Some(d[CHOOSE i \in 1..Len(d) : d[i][1] = key][2])
    ELSE None

\* dict(fields), line 16: a key keeps the place of its first pair and the
\* value of its last
RECURSIVE DictOf(_, _)
DictOf(fields, d) ==
    IF fields = <<>> THEN d
    ELSE DictOf(Tail(fields),
                IF Get(d, Head(fields)[1]) = None THEN Append(d, Head(fields))
                ELSE [i \in 1..Len(d) |->
                        IF d[i][1] = Head(fields)[1] THEN Head(fields) ELSE d[i]])

\* lines 3-17; the unpacking of line 8 fails on an elem without "="
descr_to_feats(symbol, return_dict) ==
    IF IndexOf(symbol, ",") = 0 THEN Returned(<<symbol, <<>>>>)
    ELSE Only({IF \E i \in 1..Len(elems) : IndexOf(elems[i], "=") = 0
               THEN Raised("ValueError")
               ELSE Returned(<<SplitOnce(symbol, ",")[1],
                               IF return_dict
                               THEN DictOf(ExtendFields(elems), <<>>)
                               ELSE ExtendFields(elems)>>) :
                 elems \in {Split(SplitOnce(symbol, ",")[2], "|")}})

\* NormalizedValue leaving every value as it is
NormalizedValueUnchanged(value) == value

\* lines 32-35
NormalizedValue(value) ==
    IF value = <<"Ptan">> THEN <<"Plur">>
    ELSE IF value = <<"Brev">> THEN <<"Short">>
    ELSE value

\* lines 29-38 on the two parsed descriptions
FeaturesSubsumed(first_descr, second_descr) ==
    \A i \in 1..Len(first_descr) :
        \/ first_descr[i][1] = <<"Abbr">>
        \/ Get(second_descr, first_descr[i][1])
              = Some(NormalizedValue(first_descr[i][2]))

\* lines 21-38
is_subsumed(first, second) ==
    Only({IF f.raised # "" THEN Raised(f.raised)
          ELSE IF g.raised # "" THEN Raised(g.raised)
          ELSE IF At(f.value, 0) # At(g.value, 0) THEN Returned(FALSE)
          ELSE Returned(FeaturesSubsumed(At(f.value, 1), At(g.value, 1))) :
            f \in {descr_to_feats(first, TRUE)},
            g \in {descr_to_feats(second, TRUE)}})

\* What a tag is written from: a part of speech and a list of features, a
\* feature being a key and the list of its values.  A feature without values
\* stands for a value written without its key, which no well-formed tag has.
FeatureChoices ==
    {[key |-> "Number", values |-> <<"Plur">>],
     [key |-> "Number", values |-> <<"Ptan">>],
     [key |-> "Number", values |-> <<"Sing", "Plur">>],
     [key |-> "Variant", values |-> <<"Short">>],
     [key |-> "Variant", values |-> <<"Brev">>],
     [key |-> "Abbr", values |-> <<"Yes">>],
     [key |-> "Plur", values |-> <<>>]}

RECURSIVE FeatLists(_)
FeatLists(n) ==
    IF n = 0 THEN {<<>>}
    ELSE FeatLists(n - 1)
            \cup {Append(fs, f) : fs \in {l \in FeatLists(n - 1) : Len(l) = n - 1},
                                  f \in FeatureChoices}

Descriptions ==
    {[pos |-> "NOUN", feats |-> fs] : fs \in FeatLists(MaxFeats)}
        \cup {[pos |-> "ADJ", feats |-> fs] : fs \in FeatLists(1)}

\* the items of a list joined by sep
RECURSIVE Join(_, _)
Join(items, sep) ==
    IF items = <<>> THEN <<>>
    ELSE IF Len(items) = 1 THEN Head(items)
    ELSE Head(items) \o <<sep>> \o Join(Tail(items), sep)

\* the tag string of a description: POS,Key=Value,Value|Key=Value
FeatString(f) ==
    IF f.values = <<>> THEN <<f.key>>
    ELSE <<f.key, "=">> \o Join([v \in 1..Len(f.values) |-> <<f.values[v]>>], ",")

TagString(descr) ==
    IF descr.feats = <<>> THEN <<descr.pos>>
    ELSE <<descr.pos, ",">>
            \o Join([i \in 1..Len(descr.feats) |-> FeatString(descr.feats[i])], "|")

InitTags ==
    /\ pc = "is_subsumed"
    /\ NoParser /\ NoDecoding /\ NoPositions
    /\ result = None
    /\ tag_feats \in Descriptions \X Descriptions
    /\ first_tag = TagString(tag_feats[1])
    /\ second_tag = TagString(tag_feats[2])

IsSubsumed ==
    /\ pc = "is_subsumed"
    /\ result' = Some(is_subsumed(first_tag, second_tag))
    /\ pc' = "subsumed"
    /\ UNCHANGED <<predictVars, vocabVars, evalVars, decodeVars, tagVars,
                   posVars>>

NextTags == IsSubsumed

SpecTags == InitTags /\ [][NextTags]_vars

\* ------------------------------------------- PositionEmbedding, lines 29-52
MaxKernelLength == 3
MaxSeqLen == 5

\* the shapes of call's argument: a batch of one or two sequences of up to
\* MaxSeqLen elements, with or without a trailing feature axis
InputShapes ==
    {<<b, n>> : b \in 1..2, n \in 0..MaxSeqLen}
        \cup {<<b, n, 2>> : b \in 1..2, n \in 0..MaxSeqLen}

\* lines 43-44: inputs[..., 0] until two axes are left
RECURSIVE DropTrailingAxes(_)
DropTrailingAxes(shape) ==
    IF Len(shape) > 2 THEN DropTrailingAxes(SubSeq(shape, 1, Len(shape) - 1))
    ELSE shape

\* line 45: cumsum of ones along the last axis, minus 1
Positions(shape) == [b \in 1..shape[1] |-> [t \in 1..shape[2] |-> t - 1]]

\* kb.maximum
Maximum(x, y) == IF x >= y THEN x ELSE y

\* line 46
ClampedPositions(positions, length) ==
    [b \in 1..Len(positions) |->
        [t \in 1..Len(positions[b]) |-> Maximum(positions[b][t], length)]]

\* line 38: the kernel has max_length + 1 rows, row i is written i here
KernelRows(length) == 0..length

\* the row a backend that does not check the indices gives for an index
\* outside the kernel: all zeros, written -1
ZeroRow == 0 - 1

\* line 47 where every index is a row of the kernel, and what gather gives
\* otherwise on a backend that does not check
Gather(rows, indices) ==
    [b \in 1..Len(indices) |->
        [t \in 1..Len(indices[b]) |->
            IF indices[b][t] \in rows THEN indices[b][t] ELSE ZeroRow]]

\* lines 42-48: the outcomes of call; an index outside the kernel is an
\* error on a backend that checks gather's indices and a zero row otherwise
CallOutcomes(shape, length) ==
    Only({IF \A b \in 1..Len(indices) : \A t \in 1..Len(indices[b]) :
                indices[b][t] \in KernelRows(length)
          THEN {Returned(Gather(KernelRows(length), indices))}
          ELSE {Returned(Gather(KernelRows(length), indices)),
                Raised("InvalidArgumentError")} :
            indices \in {ClampedPositions(Positions(DropTrailingAxes(shape)),
                                          length)}})

InitPositions ==
    /\ pc = "call"
    /\ NoParser /\ NoDecoding /\ NoTags
    /\ result = None
    /\ max_length \in 1..MaxKernelLength
    /\ inputs \in InputShapes

PositionEmbeddingCall ==
    /\ pc = "call"
    /\ \E outcome \in CallOutcomes(inputs, max_length) :
          result' = Some(outcome)
    /\ pc' = "called"
    /\ UNCHANGED <<predictVars, vocabVars, evalVars, decodeVars, tagVars,
                   posVars>>

NextPositions == PositionEmbeddingCall

SpecPositions == InitPositions /\ [][NextPositions]_vars

\* ===================================================== claims on predict
\* the number of words of sentence j (TLA+ position j of data)
Words(j) == data[j] - 2

\* hs, the head list of a sentence (hs[d] the head of word d), is a tree
\* rooted at index 0: heads in range, no self-loop, every word reaches 0
IsTree(hs) ==
    /\ \A d \in 1..Len(hs) : hs[d] \in 0..Len(hs) /\ hs[d] # d
    /\ \A d \in 1..Len(hs) : Ancestor(hs, d, Len(hs)) = 0

\* total score of the head list hs under the matrix num
TreeScore(num, hs) == SumSeq([d \in 1..Len(hs) |-> num[d + 1][hs[d] + 1]])

\* the head lists have been decoded (line 348 returned)
Decoded == chl_pred_heads # None

\* C1: for every matrix of size at least 2x2 that predict_heads hands to
\* the Tree Decoder, the returned head sequence has one head per non-root
\* word, every head is a valid index and not the word itself, and following
\* head pointers from any word reaches index 0 (no cycle).
C1_DecodedHeadsFormTree ==
    Decoded =>
        \A j \in 1..Len(data) :
            /\ Len(chl_pred_heads[1][j]) = Words(j)
            /\ IsTree(chl_pred_heads[1][j])

\* C1 witness: a decoded sentence of at least two words whose greedy
\* selection was not a tree, so that the decoder had to break a cycle
C1_Witness ==
    /\ Decoded
    /\ \E j \in 1..Len(data) :
          /\ Words(j) >= 2
          /\ ~IsTree(heads[j][1])
          /\ IsTree(chl_pred_heads[1][j])

\* C2: the total score of the decoded heads under the matrix handed to the
\* decoder is the maximum over all trees rooted at index 0.
C2_DecodedHeadsMaximal ==
    Decoded =>
        \A j \in 1..Len(data) :
            \A t \in [1..Words(j) -> 0..Words(j)] :
                IsTree(t) =>
                    TreeScore(probs[j][1].num, t)
                        <= TreeScore(probs[j][1].num, chl_pred_heads[1][j])

\* C2 witness: a decoded three-word sentence whose greedy selection had a
\* cycle and whose decoded tree beats some other tree strictly
C2_Witness ==
    /\ Decoded
    /\ \E j \in 1..Len(data) :
          /\ Words(j) = 3
          /\ ~IsTree(heads[j][1])
          /\ \E t \in [1..3 -> 0..3] :
                /\ IsTree(t)
                /\ TreeScore(probs[j][1].num, t)
                     < TreeScore(probs[j][1].num, chl_pred_heads[1][j])

\* C3: whenever the greedy selection of line 347 (per word, the first
\* arg-max of its row) is a tree rooted at index 0, the decoder returns
\* exactly that selection.
C3_GreedyTreeIsReturned ==
    Decoded =>
        \A j \in 1..Len(data) :
            IsTree(heads[j][1]) => chl_pred_heads[1][j] = heads[j][1]

\* C3 witness: the three-word chain, word 1 under the root, word 2 under
\* word 1, word 3 under word 2, decoded as [0, 1, 2]
C3_Witness ==
    /\ Decoded
    /\ \E j \in 1..Len(data) :
          /\ heads[j][1] = <<0, 1, 2>>
          /\ chl_pred_heads[1][j] = <<0, 1, 2>>

\* the words of hs whose head is the virtual root
RootChildren(hs) == {d \in 1..Len(hs) : hs[d] = 0}

C5_RowsRenormalized ==
    \A j \in 1..Len(probs) :
        probs[j] # None =>
            \A d \in 2..Len(probs[j][1].num) :
                /\ SumSeq(probs[j][1].num[d]) = probs[j][1].den
                /\ probs[j][1].num[d][d] = 0

\* C8: when predict returns, it returns one head list and one label list
\* per sentence, none unset; entry j has as many entries as sentence j has
\* words and is what the decoder and the label lookup make of the models'
\* outputs for sentence j, whatever batches were drawn.
C8_OneEntryPerSentence ==
    pc = "returned" =>
        LET H == At(result[1].value, 0)
            A == At(result[1].value, 1)
        IN  /\ result[1].raised = ""
            /\ Len(H) = Len(data) /\ Len(A) = Len(data)
            /\ \A j \in 1..Len(data) :
                  /\ Len(H[j]) = Words(j)
                  /\ A[j] # None /\ Len(A[j][1]) = Words(j)
                  /\ Returned(H[j]) =
                        DecodeElem(Some(HeadsItem(scored[j][1], data[j]).probs))
                  /\ A[j] = Some(DepsItem(labelled[1][j][1], data[j], dep_vocab))

\* C8 witness: predict returned for two sentences of different lengths
\* that were scored in one batch
C8_Witness ==
    /\ pc = "returned"
    /\ Len(data) = 2
    /\ data[1] # data[2]
    /\ Len(scored[1][1]) = Len(scored[2][1])

\* C9: when a matrix handed to the decoder is smaller than 2x2 (a sentence
\* without words), the call ends with the shape-mismatch error and no head
\* list is produced.
C9_ShapeMismatchSurfaces ==
    (pc \in {"predict_deps", "returned", "raised"}
        /\ \E j \in 1..Len(data) : Words(j) = 0)
    => /\ pc = "raised"
       /\ result = Some(Raised("ShapeMismatch"))
       /\ chl_pred_heads = None

\* C9 witness: a call with a sentence without words and a sentence with
\* words has ended with the error
C9_Witness ==
    /\ pc = "raised"
    /\ \E j \in 1..Len(data) : Words(j) = 0
    /\ \E j \in 1..Len(data) : Words(j) > 0

\* ============================================== claims on evaluate_heads
\* the sentence pairs the loop compares
EvalPairs ==
    1..(IF Len(corr_heads) <= Len(pred_heads)
        THEN Len(corr_heads) ELSE Len(pred_heads))

\* by how much gold sentence s is shifted against the predicted one
MarkerShift(s) ==
    IF Len(corr_heads[s]) = Len(pred_heads[s]) + 2 THEN 1 ELSE 0

\* positions of pair s at which gold (past the shift) and predicted agree
AgreeingPositions(s) ==
    {i \in 1..Len(pred_heads[s]) :
        corr_heads[s][i + MarkerShift(s)] = pred_heads[s][i]}

\* C6: when evaluate_heads returns, the word accuracy is the number of
\* agreeing positions over the number of compared words, the sentence
\* accuracy is the number of fully agreeing sentences over the number of
\* gold sentences; ([[1,2,3]], [[1,2,3]]) gives 1.0 and 1.0 and
\* ([[1,2,3]], [[1,2,0]]) gives 2/3 and 0.0.
C6_AccuracyIsAgreementRatio ==
    (evaluated # None /\ evaluated[1].raised = "") =>
        LET v == evaluated[1].value
            agree == SumSeq([s \in EvalPairs |-> Cardinality(AgreeingPositions(s))])
            words == SumSeq([s \in EvalPairs |-> Len(pred_heads[s])])
            exact == Cardinality({s \in EvalPairs :
                        Cardinality(AgreeingPositions(s)) = Len(pred_heads[s])})
        IN  /\ At(v, 2) = <<agree, words>>
            /\ At(v, 5) = <<exact, Len(corr_heads)>>
            /\ (corr_heads = <<<<1, 2, 3>>>> /\ pred_heads = <<<<1, 2, 3>>>>)
                  => At(v, 2) = <<3, 3>> /\ At(v, 5) = <<1, 1>>
            /\ (corr_heads = <<<<1, 2, 3>>>> /\ pred_heads = <<<<1, 2, 0>>>>)
                  => At(v, 2) = <<2, 3>> /\ At(v, 5) = <<0, 1>>

\* C6 witness: the second example of the specification has been evaluated
\* to 2/3 and 0.0
C6_Witness ==
    /\ corr_heads = <<<<1, 2, 3>>>> /\ pred_heads = <<<<1, 2, 0>>>>
    /\ evaluated = Some(Returned(<<2, 3, <<2, 3>>, 0, 1, <<0, 1>>>>))

\* C7: a compared gold sentence that is neither as long as the predicted
\* one nor exactly 2 longer makes the call raise ValueError; and when the
\* call returns, a gold sentence that is exactly 2 longer was compared
\* without its first and its last element.
C7_OnlyMarkerMismatchTolerated ==
    evaluated # None =>
        /\ (\E s \in EvalPairs :
               /\ Len(corr_heads[s]) # Len(pred_heads[s])
               /\ Len(corr_heads[s]) # Len(pred_heads[s]) + 2)
              => evaluated[1] = Raised("ValueError")
        /\ evaluated[1].raised = "" =>
              /\ \A s \in EvalPairs :
                    Len(corr_heads[s]) - Len(pred_heads[s]) \in {0, 2}
              /\ At(evaluated[1].value, 0) =
                    SumSeq([s \in EvalPairs |->
                        Cardinality({i \in 1..Len(pred_heads[s]) :
                            pred_heads[s][i] =
                                IF Len(corr_heads[s]) = Len(pred_heads[s])
                                THEN corr_heads[s][i]
                                ELSE corr_heads[s][i + 1]})])
              /\ At(evaluated[1].value, 1) =
                    SumSeq([s \in EvalPairs |-> Len(pred_heads[s])])

\* C7 witness: a gold sentence with two extra elements, of which only the
\* middle one agrees, was evaluated as fully correct
C7_Witness ==
    /\ corr_heads = <<<<1, 0, 1>>>> /\ pred_heads = <<<<0>>>>
    /\ evaluated = Some(Returned(<<1, 1, <<1, 1>>, 1, 1, <<1, 1>>>>))

\* C7 second witness: a gold sentence 3 longer than the predicted one made
\* the call raise
C7_WitnessRaise ==
    /\ corr_heads = <<<<0, 0, 0>>>> /\ pred_heads = <<<<>>>>
    /\ evaluated = Some(Raised("ValueError"))

\* ========================================================= claims on train
\* C10: a train step leaves each vocabulary either as it was or built from
\* the training sentences, tags and labels alone, whatever held-out data it
\* was given; every other step, those of predict included, leaves the three
\* vocabularies unchanged.
C10_VocabulariesFromTrainingDataOnly ==
    [][IF pc = "constructed" /\ pc' # "constructed"
       THEN LET args == trained_on'[1]
            IN  /\ symbol_vocabulary' =
                      IF config.use_char_model
                      THEN Some(TrainVocabulary(PadCorpus(args.sents)))
                      ELSE symbol_vocabulary
                /\ tag_vocabulary' =
                      IF args.tags # None
                      THEN Some(TrainVocabulary(PadCorpus(args.tags[1])))
                      ELSE tag_vocabulary
                /\ dep_vocab' \in {dep_vocab, TrainVocabulary(PadCorpus(args.deps))}
                /\ pc' = "ready" => dep_vocab' = TrainVocabulary(PadCorpus(args.deps))
       ELSE UNCHANGED vocabularies]_vars

\* C10 witness: a parser using characters and tags was trained with a
\* held-out corpus of another symbol than the training corpus, predict has
\* returned, and the vocabularies hold the training symbols only
C10_Witness ==
    /\ pc = "returned"
    /\ config.use_char_model /\ config.use_tags
    /\ trained_on # None
    /\ trained_on[1].dev_sents = Some(Uniform(MaxTrainSents, 2))
    /\ trained_on[1].tags = Some(Uniform(MaxTrainSents, 1))
    /\ symbol_vocabulary = Some(<<0, 1, BEGIN, END>>)
    /\ tag_vocabulary = Some(<<0, 1, BEGIN, END>>)

\* ======================================================= claims on decoding

\* C11: decoding a square score matrix of at least 2 x 2 terminates: every
\* contraction leaves a graph with strictly fewer nodes than the one it
\* contracted, and a call on such a matrix eventually returns a head
\* sequence.
C11_DecoderTerminates ==
    /\ [][(pc = "decode_select" /\ pc' = "decode_select") =>
            Cardinality(stack'[Len(stack')].nodes)
                < Cardinality(stack[Len(stack)].nodes)]_vars
    /\ (pc = "decode" /\ IsSquare(matrix) /\ Len(matrix) >= 2)
          ~> (pc = "decoded" /\ result # None /\ result[1].raised = ""
                /\ Len(At(result[1].value, 0)) = Len(matrix))

\* C11 witness: a call that returned after two contractions, the second
\* one of a cycle through the node the first one made, with the heads the
\* recursive decoder gives
C11_Witness ==
    /\ pc = "decoded"
    /\ contractions >= 2
    /\ result = Some(chu_liu_edmonds(matrix))


\* ==================================================== claims on is_subsumed

\* the descriptions the two arguments were written from
FirstWritten == tag_feats[1]
SecondWritten == tag_feats[2]
WellFormed(descr) == \A i \in 1..Len(descr.feats) : descr.feats[i].values # <<>>

\* the keys a description lists, and the value a key is listed with last
KeysOf(descr) == {descr.feats[i].key : i \in 1..Len(descr.feats)}
LastValue(descr, key) ==
    LET i == MaxOf({j \in 1..Len(descr.feats) : descr.feats[j].key = key})
    IN  descr.feats[i].values[Len(descr.feats[i].values)]

\* every (key, value) a description lists
PairsOf(descr) ==
    UNION {{<<descr.feats[i].key, descr.feats[i].values[v]>> :
               v \in 1..Len(descr.feats[i].values)} : i \in 1..Len(descr.feats)}

Subsumed == pc = "subsumed" /\ WellFormed(FirstWritten) /\ WellFormed(SecondWritten)

Alias(value) ==
    IF value = "Ptan" THEN "Plur" ELSE IF value = "Brev" THEN "Short" ELSE value

C13_RowsInKernelAndDistinct ==
    pc = "called" =>
        /\ result[1].raised = ""
        /\ \A b \in 1..Len(result[1].value) :
              /\ \A t \in 1..Len(result[1].value[b]) :
                    result[1].value[b][t] \in 0..max_length
              /\ \A t, u \in 1..Len(result[1].value[b]) :
                    (t < u /\ u - 1 < max_length) =>
                        result[1].value[b][t] # result[1].value[b][u]


====
